---------------------------- MODULE Spec2Model ----------------------------
(***************************************************************************)
(* A model of elsapy/elsprofile.py: the profile entities ElsAuthor and     *)
(* ElsAffil, their construction, and the read_docs / write_docs /          *)
(* read_metrics operations of one entity object.                           *)
(*                                                                         *)
(* Representation of Python values:                                        *)
(*   - a str is the sequence of its characters (one-character strings);    *)
(*   - a scalar argument (a str or an int) is a record [t, n, s];          *)
(*   - a dict whose keys are fixed names is a function on those names;     *)
(*   - a JSON object whose text matters (a document) is the sequence of    *)
(*     its [k, v] members in insertion order;                              *)
(*   - None is PyNone, any other value x of an optional attribute Some(x). *)
(***************************************************************************)
EXTENDS Integers, Sequences, FiniteSets, TLC

VARIABLES
    obj,        \* class of the constructed entity, "none" while there is none
    uri,        \* ElsEntity._uri
    client,     \* ElsEntity._client: NoClient or a client
    data,       \* ElsEntity._data
    doc_list,   \* ElsProfile._doc_list
    docsframe,  \* ElsProfile.docsframe
    fs,         \* the files under the working directory: name -> content
    op,         \* the last call made
    args,       \* its arguments and what the client answered
    pre,        \* the entity's attributes and the files when it was made
    ret,        \* how it ended: a returned value or a raised exception
    requests    \* the requests it issued: <<[client, url], ...>>

vars == <<obj, uri, client, data, doc_list, docsframe, fs, op, args, pre, ret,
          requests>>

----------------------------------------------------------------------------
(* Bounds of the model.                                                    *)

MaxId == 5
MaxDocs == 2
MaxClients == 2
MaxCount == 2

----------------------------------------------------------------------------
(* Python values.                                                          *)

PyNone == [none |-> TRUE, v |-> <<>>]
Some(x) == [none |-> FALSE, v |-> x]

PyInt(i) == [t |-> "int", n |-> i, s |-> <<>>]
PyStr(cs) == [t |-> "str", n |-> 0, s |-> cs]

\* bool(x) of a str or an int: '' and 0 are false
Truthy(x) == IF x.t = "int" THEN x.n # 0 ELSE x.s # <<>>

DigitChar == <<"0", "1", "2", "3", "4", "5", "6", "7", "8", "9">>

RECURSIVE Digits(_)
Digits(i) == IF i < 10 THEN <<DigitChar[i + 1]>>
             ELSE Digits(i \div 10) \o <<DigitChar[(i % 10) + 1]>>

\* repr of an int in decimal
IntToChars(i) == IF i < 0 THEN <<"-">> \o Digits(-i) ELSE Digits(i)

\* str(x) of a str or an int
str(x) == IF x.t = "int" THEN IntToChars(x.n) ELSE x.s

EmptyDict == [k \in {} |-> 0]
Put(d, k, x) == [q \in DOMAIN d \cup {k} |-> IF q = k THEN x ELSE d[q]]
Get(d, k, default) == IF k \in DOMAIN d THEN d[k] ELSE default

Return(x) == [kind |-> "return", val |-> x, msg |-> ""]
Raise(e, m) == [kind |-> "raise", val |-> e, msg |-> m]

NoClient == 0

Snapshot == [client |-> client, data |-> data, doc_list |-> doc_list,
             docsframe |-> docsframe, fs |-> fs]

----------------------------------------------------------------------------
(* Construction.                                                           *)

ElsAuthor_payload_type == "author-retrieval-response"
ElsAuthor_uri_base ==
    <<"h","t","t","p","s",":","/","/","a","p","i",".","e","l","s","e","v",
      "i","e","r",".","c","o","m","/","c","o","n","t","e","n","t","/","a",
      "u","t","h","o","r","/","a","u","t","h","o","r","_","i","d","/">>

ElsAffil_payload_type == "affiliation-retrieval-response"
ElsAffil_uri_base ==
    <<"h","t","t","p","s",":","/","/","a","p","i",".","e","l","s","e","v",
      "i","e","r",".","c","o","m","/","c","o","n","t","e","n","t","/","a",
      "f","f","i","l","i","a","t","i","o","n","/","a","f","f","i","l","i",
      "a","t","i","o","n","_","i","d","/">>

\* a constructor that leaves an empty list where None belongs
ElsProfile_init_EmptyList(cls, u) ==
    /\ obj' = cls
    /\ uri' = u
    /\ data' = PyNone
    /\ client' = NoClient
    /\ doc_list' = Some(<<>>)

\* ElsEntity.__init__(uri) followed by ElsProfile.__init__'s own line
ElsProfile_init(cls, u) ==
    /\ obj' = cls
    /\ uri' = u
    /\ data' = PyNone
    /\ client' = NoClient
    /\ doc_list' = PyNone

\* the if/elif chain both constructors share: which branch is taken
InitBranch(u, id) ==
    IF Truthy(u) /\ ~Truthy(id) THEN "uri"
    ELSE IF Truthy(id) /\ ~Truthy(u) THEN "id"
    ELSE IF ~Truthy(u) /\ ~Truthy(id) THEN "neither"
    ELSE "both"

Construct(cls, base, idname, u, id) ==
    /\ op' = cls
    /\ args' = [uri |-> u, id |-> id]
    /\ pre' = Snapshot
    /\ requests' = <<>>
    /\ UNCHANGED <<docsframe, fs>>
    /\ LET b == InitBranch(u, id) IN
       CASE b = "uri" ->
              /\ ElsProfile_init(cls, u.s)
              /\ ret' = Return("None")
         [] b = "id" ->
              /\ ElsProfile_init(cls, base \o str(id))
              /\ ret' = Return("None")
         [] b = "neither" ->
              /\ ret' = Raise("ValueError", "No URI or " \o idname \o " ID specified")
              /\ UNCHANGED <<obj, uri, data, client, doc_list>>
         [] OTHER ->
              /\ ret' = Raise("ValueError", "Both URI and " \o idname
                                            \o " ID specified; just need one.")
              /\ UNCHANGED <<obj, uri, data, client, doc_list>>

\* a constructor call makes the entity this model follows: there is none yet
ElsAuthor_init(u, id) ==
    /\ obj = "none"
    /\ Construct("ElsAuthor", ElsAuthor_uri_base, "author", u, id)

ElsAffil_init(u, id) ==
    /\ obj = "none"
    /\ Construct("ElsAffil", ElsAffil_uri_base, "affiliation", u, id)

----------------------------------------------------------------------------
(* json.dumps, restricted to the values a document holds here: an object   *)
(* of str and int members.  Characters are ASCII; of the escapes only the  *)
(* ones of '"', '\' and of the newline, tab, return and form feed          *)
(* characters occur.                                                       *)

EscapeChar(c) ==
    CASE c = "\"" -> <<"\\", "\"">>
      [] c = "\\" -> <<"\\", "\\">>
      [] c = "\n" -> <<"\\", "n">>
      [] c = "\t" -> <<"\\", "t">>
      [] c = "\r" -> <<"\\", "r">>
      [] c = "\f" -> <<"\\", "f">>
      [] OTHER -> <<c>>

RECURSIVE EscapeChars(_)
EscapeChars(cs) ==
    IF cs = <<>> THEN <<>> ELSE EscapeChar(Head(cs)) \o EscapeChars(Tail(cs))

dumps_str(cs) == <<"\"">> \o EscapeChars(cs) \o <<"\"">>

dumps_scalar(x) == IF x.t = "int" THEN IntToChars(x.n) ELSE dumps_str(x.s)

dumps_member(m) == dumps_str(m.k) \o <<":", " ">> \o dumps_scalar(m.v)

RECURSIVE dumps_members(_)
dumps_members(ms) ==
    IF Len(ms) = 1 THEN dumps_member(ms[1])
    ELSE dumps_member(ms[1]) \o <<",", " ">> \o dumps_members(Tail(ms))

\* json.dumps(doc) with the default separators (', ', ': ')
json_dumps(doc) ==
    IF doc = <<>> THEN <<"{", "}">>
    ELSE <<"{">> \o dumps_members(doc) \o <<"}">>

----------------------------------------------------------------------------
(* json.loads, for the same values inside a top-level array: what reads    *)
(* back the file write_docs wrote.                                         *)

ParseFail == [ok |-> FALSE, v |-> <<>>, next |-> 0]
ParseOk(x, i) == [ok |-> TRUE, v |-> x, next |-> i]

\* the character at i, "" past the end
At(s, i) == IF i >= 1 /\ i <= Len(s) THEN s[i] ELSE ""

\* the whitespace of JSON text
IsWs(c) == c \in {" ", "\t", "\n", "\r"}
IsDigit(c) == c \in {"0", "1", "2", "3", "4", "5", "6", "7", "8", "9"}
DigitVal(c) == CHOOSE d \in 0 .. 9 : DigitChar[d + 1] = c

RECURSIVE SkipWs(_, _)
SkipWs(s, i) == IF IsWs(At(s, i)) THEN SkipWs(s, i + 1) ELSE i

Unescape(c) ==
    CASE c = "\"" -> "\""
      [] c = "\\" -> "\\"
      [] c = "/" -> "/"
      [] c = "n" -> "\n"
      [] c = "t" -> "\t"
      [] c = "r" -> "\r"
      [] c = "f" -> "\f"
      [] OTHER -> ""

\* i is just after the opening quote
RECURSIVE ScanString(_, _, _)
ScanString(s, i, acc) ==
    LET c == At(s, i) IN
    IF c \in {"", "\n", "\t", "\r", "\f"} THEN ParseFail
    ELSE IF c = "\"" THEN ParseOk(acc, i + 1)
    ELSE IF c = "\\"
         THEN IF Unescape(At(s, i + 1)) = "" THEN ParseFail
              ELSE ScanString(s, i + 2, Append(acc, Unescape(At(s, i + 1))))
    ELSE ScanString(s, i + 1, Append(acc, c))

RECURSIVE ScanDigits(_, _, _)
ScanDigits(s, i, acc) ==
    IF IsDigit(At(s, i)) THEN ScanDigits(s, i + 1, 10 * acc + DigitVal(s[i]))
    ELSE ParseOk(acc, i)

\* -?(0|[1-9][0-9]*), not followed by a fraction or an exponent
ScanInt(s, i) ==
    LET neg == At(s, i) = "-"
        j == IF neg THEN i + 1 ELSE i
        r == ScanDigits(s, j, 0)
    IN  IF ~IsDigit(At(s, j)) THEN ParseFail
        ELSE IF At(s, j) = "0" /\ IsDigit(At(s, j + 1)) THEN ParseFail
        ELSE IF At(s, r.next) \in {".", "e", "E"} THEN ParseFail
        ELSE ParseOk(IF neg THEN -r.v ELSE r.v, r.next)

ParseScalar(s, i) ==
    IF At(s, i) = "\""
    THEN LET r == ScanString(s, i + 1, <<>>) IN
         IF r.ok THEN ParseOk(PyStr(r.v), r.next) ELSE ParseFail
    ELSE LET r == ScanInt(s, i) IN
         IF r.ok THEN ParseOk(PyInt(r.v), r.next) ELSE ParseFail

\* i is at the first character of a member's name
RECURSIVE ParseMembers(_, _, _)
ParseMembers(s, i, acc) ==
    IF At(s, i) # "\"" THEN ParseFail
    ELSE LET key == ScanString(s, i + 1, <<>>) IN
         IF ~key.ok THEN ParseFail
         ELSE LET c == SkipWs(s, key.next) IN
              IF At(s, c) # ":" THEN ParseFail
              ELSE LET val == ParseScalar(s, SkipWs(s, c + 1)) IN
                   IF ~val.ok THEN ParseFail
                   ELSE LET e == SkipWs(s, val.next)
                            ms == Append(acc, [k |-> key.v, v |-> val.v])
                        IN  IF At(s, e) = "}" THEN ParseOk(ms, e + 1)
                            ELSE IF At(s, e) = ","
                            THEN ParseMembers(s, SkipWs(s, e + 1), ms)
                            ELSE ParseFail

ParseObject(s, i) ==
    IF At(s, i) # "{" THEN ParseFail
    ELSE LET j == SkipWs(s, i + 1) IN
         IF At(s, j) = "}" THEN ParseOk(<<>>, j + 1)
         ELSE ParseMembers(s, j, <<>>)

\* i is at the first character of an element
RECURSIVE ParseElements(_, _, _)
ParseElements(s, i, acc) ==
    LET el == ParseObject(s, i) IN
    IF ~el.ok THEN ParseFail
    ELSE LET e == SkipWs(s, el.next)
             els == Append(acc, el.v)
         IN  IF At(s, e) = "]" THEN ParseOk(els, e + 1)
             ELSE IF At(s, e) = "," THEN ParseElements(s, SkipWs(s, e + 1), els)
             ELSE ParseFail

ParseArray(s, i) ==
    IF At(s, i) # "[" THEN ParseFail
    ELSE LET j == SkipWs(s, i + 1) IN
         IF At(s, j) = "]" THEN ParseOk(<<>>, j + 1)
         ELSE ParseElements(s, j, <<>>)

\* json.loads(text): [ok, v]; ok is FALSE where json.loads raises
json_loads(s) ==
    LET r == ParseArray(s, SkipWs(s, 1)) IN
    IF r.ok /\ SkipWs(s, r.next) = Len(s) + 1
    THEN [ok |-> TRUE, v |-> r.v]
    ELSE [ok |-> FALSE, v |-> <<>>]

----------------------------------------------------------------------------
(* urllib.parse.quote_plus on printable ASCII text (the backquote, which a *)
(* TLA+ string cannot hold, left out).                                     *)

QuoteTable ==
    " " :> <<"+">> @@ "!" :> <<"%","2","1">> @@ "\"" :> <<"%","2","2">>
    @@ "#" :> <<"%","2","3">> @@ "$" :> <<"%","2","4">> @@ "%" :> <<"%","2","5">>
    @@ "&" :> <<"%","2","6">> @@ "'" :> <<"%","2","7">> @@ "(" :> <<"%","2","8">>
    @@ ")" :> <<"%","2","9">> @@ "*" :> <<"%","2","A">> @@ "+" :> <<"%","2","B">>
    @@ "," :> <<"%","2","C">> @@ "/" :> <<"%","2","F">> @@ ":" :> <<"%","3","A">>
    @@ ";" :> <<"%","3","B">> @@ "<" :> <<"%","3","C">> @@ "=" :> <<"%","3","D">>
    @@ ">" :> <<"%","3","E">> @@ "?" :> <<"%","3","F">> @@ "@" :> <<"%","4","0">>
    @@ "[" :> <<"%","5","B">> @@ "\\" :> <<"%","5","C">> @@ "]" :> <<"%","5","D">>
    @@ "^" :> <<"%","5","E">> @@ "{" :> <<"%","7","B">>
    @@ "|" :> <<"%","7","C">> @@ "}" :> <<"%","7","D">>

RECURSIVE quote_plus(_)
quote_plus(cs) ==
    IF cs = <<>> THEN <<>>
    ELSE (IF Head(cs) \in DOMAIN QuoteTable THEN QuoteTable[Head(cs)]
          ELSE <<Head(cs)>>) \o quote_plus(Tail(cs))

----------------------------------------------------------------------------
(* ElsProfile.read_docs and the read_docs of the two classes.              *)
(* The client is outside this module: what exec_request answers is the     *)
(* argument resp, [err, body]: err is TRUE where exec_request raises       *)
(* requests.HTTPError or requests.RequestException, and body is the parsed *)
(* JSON it returns otherwise.                                              *)

\* uri.split('/')[-1]
RECURSIVE LastSegment(_)
LastSegment(cs) ==
    IF cs = <<>> \/ cs[Len(cs)] = "/" THEN <<>>
    ELSE LastSegment(SubSeq(cs, 1, Len(cs) - 1)) \o <<cs[Len(cs)]>>

search_url(u) ==
    <<"h","t","t","p",":","/","/","a","p","i",".","e","l","s","e","v","i",
      "e","r",".","c","o","m","/","c","o","n","t","e","n","t","/","s","e",
      "a","r","c","h","/","s","c","o","p","u","s","?","q","u","e","r","y",
      "=","a","u","-","i","d","(">>
    \o LastSegment(u)
    \o <<")","&","v","i","e","w","=","C","O","M","P","L","E","T","E">>

\* an extraction that loses the first entry
ExtractEntries_DropFirst(body) ==
    LET l == Get(Get(body, "search-results", EmptyDict), "entry", <<>>) IN
    IF l = <<>> THEN l ELSE Tail(l)

\* api_response.get("search-results", {}).get("entry", [])
ExtractEntries(body) ==
    Get(Get(body, "search-results", EmptyDict), "entry", <<>>)

\* recast_df(pd.DataFrame(docs)): the tabular view, one row per document
\* and one column per member name
recast_df(docs) ==
    [rows |-> Len(docs),
     columns |-> UNION { { docs[i][j].k : j \in 1 .. Len(docs[i]) }
                         : i \in 1 .. Len(docs) }]

\* the client the call uses: the argument if given, else the bound one
BoundClient(els_client) == IF els_client # NoClient THEN els_client ELSE client

\* a check that forgets the elif
Unbound_NoElif(els_client) == FALSE

\* neither an argument nor a bound client: the call raises ValueError
Unbound(els_client) == els_client = NoClient /\ client = NoClient

\* a try block that resets the list before it asks
read_docs_try_ResetFirst(resp, dl, df) ==
    IF resp.err
    THEN [ret |-> "False", doc_list |-> Some(<<>>), docsframe |-> df]
    ELSE [ret |-> "True", doc_list |-> Some(ExtractEntries(resp.body)),
          docsframe |-> Some(recast_df(ExtractEntries(resp.body)))]

\* the try block after the request: what the call returns and what it
\* leaves in _doc_list and docsframe (dl and df are what they held)
read_docs_try(resp, dl, df) ==
    IF resp.err
    THEN [ret |-> "False", doc_list |-> dl, docsframe |-> df]
    ELSE [ret |-> "True", doc_list |-> Some(ExtractEntries(resp.body)),
          docsframe |-> Some(recast_df(ExtractEntries(resp.body)))]

ElsProfile_read_docs(payloadType, els_client, resp) ==
    /\ obj # "none"
    /\ op' = "read_docs"
    /\ args' = [payloadType |-> payloadType, els_client |-> els_client,
                resp |-> resp]
    /\ pre' = Snapshot
    /\ UNCHANGED <<obj, uri, data, fs>>
    /\ IF Unbound(els_client)
       THEN /\ ret' = Raise("ValueError",
                   "Entity object not currently bound to els_client instance.")
            /\ requests' = <<>>
            /\ UNCHANGED <<client, doc_list, docsframe>>
       ELSE /\ client' = BoundClient(els_client)
            /\ requests' = <<[client |-> BoundClient(els_client),
                              url |-> search_url(uri)]>>
            /\ LET out == read_docs_try(resp, doc_list, docsframe) IN
               /\ ret' = Return(out.ret)
               /\ doc_list' = out.doc_list
               /\ docsframe' = out.docsframe

ElsAuthor_read_docs(els_client, resp) ==
    /\ obj = "ElsAuthor"
    /\ ElsProfile_read_docs(ElsAuthor_payload_type, els_client, resp)

ElsAffil_read_docs(els_client, resp) ==
    /\ obj = "ElsAffil"
    /\ ElsProfile_read_docs(ElsAffil_payload_type, els_client, resp)

----------------------------------------------------------------------------
(* ElsProfile.write_docs.  The directory data/ is taken to exist.          *)

\* 'data/' + quote_plus(uri + '?view=documents') + '.json'
dump_file_name(u) ==
    <<"d", "a", "t", "a", "/">>
    \o quote_plus(u \o <<"?","v","i","e","w","=","d","o","c","u","m","e",
                        "n","t","s">>)
    \o <<".", "j", "s", "o", "n">>

\* a loop that forgets the separator
RECURSIVE DumpRest_NoComma(_, _)
DumpRest_NoComma(docs, i) ==
    IF i > Len(docs) THEN <<>>
    ELSE json_dumps(docs[i]) \o DumpRest_NoComma(docs, i + 1)

\* the writes of range(1, len(docs)) from index i (counted from 1 here)
RECURSIVE DumpRest(_, _)
DumpRest(docs, i) ==
    IF i > Len(docs) THEN <<>>
    ELSE <<",">> \o json_dumps(docs[i]) \o DumpRest(docs, i + 1)

\* everything write_docs writes to the file
DumpText(docs) ==
    <<"[">> \o json_dumps(docs[1]) \o DumpRest(docs, 2) \o <<"]">>

\* bool(self.doc_list)
HasDocs(dl) == ~dl.none /\ dl.v # <<>>

ElsProfile_write_docs ==
    /\ obj # "none"
    /\ op' = "write_docs"
    /\ args' = <<>>
    /\ pre' = Snapshot
    /\ requests' = <<>>
    /\ UNCHANGED <<obj, uri, client, data, doc_list, docsframe>>
    /\ IF HasDocs(doc_list)
       THEN /\ fs' = Put(fs, dump_file_name(uri), DumpText(doc_list.v))
            /\ ret' = Return("True")
       ELSE /\ ret' = Return("False")
            /\ UNCHANGED fs

----------------------------------------------------------------------------
(* ElsEntity.read, as the two classes' read uses it: one GET of the uri,   *)
(* the payload stored as data in place of what was there.                  *)

ElsEntity_read(payloadType, els_client, resp) ==
    /\ obj # "none"
    /\ op' = "read"
    /\ args' = [payloadType |-> payloadType, els_client |-> els_client,
                resp |-> resp]
    /\ pre' = Snapshot
    /\ UNCHANGED <<obj, uri, doc_list, docsframe, fs>>
    /\ IF Unbound(els_client)
       THEN /\ ret' = Raise("ValueError",
                   "Entity object not currently bound to els_client instance.")
            /\ requests' = <<>>
            /\ UNCHANGED <<client, data>>
       ELSE /\ client' = BoundClient(els_client)
            /\ requests' = <<[client |-> BoundClient(els_client), url |-> uri]>>
            /\ IF resp.err
               THEN /\ ret' = Return("False")
                    /\ UNCHANGED data
               ELSE /\ data' = Some(resp.body[payloadType][1])
                    /\ ret' = Return("True")

ElsAuthor_read(els_client, resp) ==
    /\ obj = "ElsAuthor"
    /\ ElsEntity_read(ElsAuthor_payload_type, els_client, resp)

ElsAffil_read(els_client, resp) ==
    /\ obj = "ElsAffil"
    /\ ElsEntity_read(ElsAffil_payload_type, els_client, resp)

----------------------------------------------------------------------------
(* ElsAuthor.read_metrics.                                                 *)

\* the whitespace int ignores around a literal (str.isspace): the JSON
\* whitespace and the form feed.  The vertical tab and the separators
\* 0x1c .. 0x1f, which int ignores too, are not characters of this model.
IsSpace(c) == c \in {" ", "\t", "\n", "\r", "\f"}

RECURSIVE LStrip(_)
LStrip(cs) == IF cs # <<>> /\ IsSpace(Head(cs)) THEN LStrip(Tail(cs)) ELSE cs

RECURSIVE RStrip(_)
RStrip(cs) == IF cs # <<>> /\ IsSpace(cs[Len(cs)])
              THEN RStrip(SubSeq(cs, 1, Len(cs) - 1)) ELSE cs

\* the digits of an int literal, single underscores between them allowed
RECURSIVE IntDigits(_, _, _)
IntDigits(ds, i, acc) ==
    IF i > Len(ds) THEN [ok |-> TRUE, n |-> acc]
    ELSE IF IsDigit(ds[i]) THEN IntDigits(ds, i + 1, 10 * acc + DigitVal(ds[i]))
    ELSE IF ds[i] = "_" /\ IsDigit(At(ds, i - 1)) /\ IsDigit(At(ds, i + 1))
    THEN IntDigits(ds, i + 1, acc)
    ELSE [ok |-> FALSE, n |-> 0]

\* int(x) of an int or a str: [ok, n], ok FALSE where int raises ValueError
py_int(x) ==
    IF x.t = "int" THEN [ok |-> TRUE, n |-> x.n]
    ELSE LET cs == RStrip(LStrip(x.s))
             signed == cs # <<>> /\ Head(cs) \in {"-", "+"}
             ds == IF signed THEN Tail(cs) ELSE cs
             r == IntDigits(ds, 1, 0)
         IN  IF ds = <<>> \/ ~r.ok THEN [ok |-> FALSE, n |-> 0]
             ELSE [ok |-> TRUE,
                   n |-> IF signed /\ Head(cs) = "-" THEN -r.n ELSE r.n]

\* repr of a str: in single quotes, in double quotes when it holds a single
\* quote and no double quote; the quote, the backslash and the control
\* characters escaped
ReprQuote(cs) ==
    IF (\E i \in 1 .. Len(cs) : cs[i] = "'")
       /\ ~(\E i \in 1 .. Len(cs) : cs[i] = "\"")
    THEN "\"" ELSE "'"

ReprChar(c, q) ==
    CASE c = "\\" -> "\\\\"
      [] c = q -> "\\" \o c
      [] c = "\n" -> "\\n"
      [] c = "\t" -> "\\t"
      [] c = "\r" -> "\\r"
      [] c = "\f" -> "\\x0c"
      [] OTHER -> c

RECURSIVE ReprChars(_, _)
ReprChars(cs, q) ==
    IF cs = <<>> THEN "" ELSE ReprChar(Head(cs), q) \o ReprChars(Tail(cs), q)

py_repr(cs) == ReprQuote(cs) \o ReprChars(cs, ReprQuote(cs)) \o ReprQuote(cs)

\* the ValueError int raises for a str that is no literal
IntError(x) ==
    Raise("ValueError",
          "invalid literal for int() with base 10: " \o py_repr(x.s))

\* ",".join(fields)
RECURSIVE Join(_, _)
Join(sep, parts) ==
    IF parts = <<>> THEN <<>>
    ELSE IF Len(parts) = 1 THEN parts[1]
    ELSE parts[1] \o sep \o Join(sep, Tail(parts))

metrics_fields ==
    << <<"d","o","c","u","m","e","n","t","-","c","o","u","n","t">>,
       <<"c","i","t","e","d","-","b","y","-","c","o","u","n","t">>,
       <<"c","i","t","a","t","i","o","n","-","c","o","u","n","t">>,
       <<"h","-","i","n","d","e","x">>,
       <<"d","c",":","i","d","e","n","t","i","f","i","e","r">> >>

metrics_url(u) ==
    u \o <<"?","f","i","e","l","d","=">> \o Join(<<",">>, metrics_fields)

\* self._data['coredata'][k] = x
PutCore(d, k, x) == Put(d, "coredata", Put(d["coredata"], k, x))

\* not self.data
DataFalsy(dt) == dt.none \/ DOMAIN dt.v = {}

\* cited-by-count taken from the field of its own name
CitedBySource_Own == "cited-by-count"

\* the source field cited-by-count is assigned from
CitedBySource == "citation-count"

ElsAuthor_read_metrics(els_client, resp) ==
    /\ obj = "ElsAuthor"
    /\ op' = "read_metrics"
    /\ args' = [els_client |-> els_client, resp |-> resp]
    /\ pre' = Snapshot
    /\ UNCHANGED <<obj, uri, client, doc_list, docsframe, fs>>
    /\ IF els_client = NoClient
       THEN \* None.exec_request: not an error the except clause names
            /\ ret' = Raise("AttributeError",
                   "'NoneType' object has no attribute 'exec_request'")
            /\ requests' = <<>>
            /\ UNCHANGED data
       ELSE /\ requests' = <<[client |-> els_client, url |-> metrics_url(uri)]>>
            /\ IF resp.err
               THEN /\ ret' = Return("False")
                    /\ UNCHANGED data
               ELSE LET d  == resp.body[ElsAuthor_payload_type][1]
                        d0 == IF DataFalsy(data) THEN "coredata" :> EmptyDict
                              ELSE data.v
                    IN
                    IF "coredata" \notin DOMAIN d0
                    THEN /\ ret' = Raise("KeyError", "coredata")
                         /\ UNCHANGED data
                    ELSE
                    LET core == d["coredata"]
                        d1 == PutCore(d0, "dc:identifier",
                                      core["dc:identifier"])
                        cc == py_int(core["citation-count"])
                        d2 == PutCore(d1, "citation-count", PyInt(cc.n))
                        cb == py_int(core[CitedBySource])
                        d3 == PutCore(d2, "cited-by-count", PyInt(cb.n))
                        dc == py_int(core["document-count"])
                        d4 == PutCore(d3, "document-count", PyInt(dc.n))
                        hi == py_int(d["h-index"])
                        d5 == Put(d4, "h-index", PyInt(hi.n))
                    IN
                    IF ~cc.ok
                    THEN data' = Some(d1) /\ ret' = IntError(core["citation-count"])
                    ELSE IF ~cb.ok
                    THEN data' = Some(d2) /\ ret' = IntError(core[CitedBySource])
                    ELSE IF ~dc.ok
                    THEN data' = Some(d3) /\ ret' = IntError(core["document-count"])
                    ELSE IF ~hi.ok
                    THEN data' = Some(d4) /\ ret' = IntError(d["h-index"])
                    ELSE data' = Some(d5) /\ ret' = Return("True")

----------------------------------------------------------------------------
(* The initial state.                                                      *)

Init ==
    /\ obj = "none"
    /\ uri = <<>>
    /\ client = NoClient
    /\ data = PyNone
    /\ doc_list = PyNone
    /\ docsframe = PyNone
    /\ fs = EmptyDict
    /\ op = "start"
    /\ args = <<>>
    /\ pre = [client |-> NoClient, data |-> PyNone, doc_list |-> PyNone,
              docsframe |-> PyNone, fs |-> EmptyDict]
    /\ ret = [kind |-> "none", val |-> "", msg |-> ""]
    /\ requests = <<>>

----------------------------------------------------------------------------
(* Inputs.                                                                 *)

\* URI arguments: '' (the default), short strings, full URIs
UriArgs ==
    { PyStr(<<>>), PyStr(<<"u">>), PyStr(<<"a", "/", "b">>),
      PyStr(<<"h", "t", "t", "p", ":", "/", "/", "x", "/", "1", "2">>),
      PyStr(ElsAuthor_uri_base \o <<"7">>) }

\* ID arguments: '' (the default), numeric strings, ints from 0
IdArgs ==
    { PyStr(<<>>), PyStr(<<"7">>), PyStr(<<"0">>), PyStr(<<"4", "2">>) }
    \cup { PyInt(i) : i \in 0 .. MaxId } \cup { PyInt(10 * MaxId + 7) }

\* the arguments the other specifications construct their entity with: an
\* author from its URI, an affiliation from its ID
FewUriArgs == { PyStr(<<>>), PyStr(ElsAuthor_uri_base \o <<"7">>) }
FewIdArgs == { PyStr(<<>>), PyInt(42) }

Clients == 1 .. MaxClients
ClientArgs == {NoClient} \cup Clients

TransportError == [err |-> TRUE, body |-> EmptyDict]
Response(body) == [err |-> FALSE, body |-> body]

Member(k, x) == [k |-> k, v |-> x]

\* two documents; the second holds the characters the JSON text escapes or
\* gives a meaning to
Doc1 == << Member(<<"e", "i", "d">>, PyStr(<<"2", "-", "s", "2", ".", "0">>)),
           Member(<<"c", "i", "t", "e", "d", "b", "y">>, PyStr(<<"3">>)) >>
Doc2 == << Member(<<"d", "c", ":", "t", "i", "t", "l", "e">>,
                  PyStr(<<"A", " ", "\"", "b", "\\", "c", "\"", ",", "[", "{",
                          "d", "}", "]", "\n">>)),
           Member(<<"n">>, PyInt(-40)) >>
Doc3 == <<>>
DocSet == {Doc1, Doc2}

RECURSIVE SeqsUpTo(_, _)
SeqsUpTo(S, n) ==
    IF n = 0 THEN {<<>>}
    ELSE LET shorter == SeqsUpTo(S, n - 1) IN
         shorter \cup { Append(l, x) : l \in shorter, x \in S }

\* what the search answers: no search-results, search-results without
\* entry, or an entry list
DocsBodies(lists) ==
    { EmptyDict,
      "search-results" :> ("opensearch:totalResults" :> PyStr(<<"0">>)) }
    \cup { "search-results" :> ("entry" :> l) : l \in lists }

DocsResponses(lists) ==
    {TransportError} \cup { Response(b) : b \in DocsBodies(lists) }

AllEntryLists == SeqsUpTo(DocSet, MaxDocs)
FewEntryLists == { <<>>, <<Doc1>>, <<Doc2, Doc1>>, <<Doc3>> }

\* payloads of read: with coredata, without coredata, empty
Payload1 ==
    ("coredata" :> ("dc:identifier" :> PyStr(<<"A", ":", "7">>)
                    @@ "prism:url" :> PyStr(<<"u">>)
                    @@ "document-count" :> PyStr(<<"1">>)))
    @@ ("author-profile" :> PyStr(<<"p">>))
Payload2 == "author-profile" :> PyStr(<<"p">>)
Payload3 == EmptyDict
Payloads == {Payload1, Payload2, Payload3}

ReadResponses(payloadType, payloads) ==
    {TransportError} \cup { Response(payloadType :> <<p>>) : p \in payloads }

\* the answer to a metrics request: counts as JSON strings or numbers
Metrics(id, cit, cby, dcount, h) ==
    ("coredata" :> ("dc:identifier" :> id
                    @@ "citation-count" :> cit
                    @@ "cited-by-count" :> cby
                    @@ "document-count" :> dcount))
    @@ ("h-index" :> h)

Counts == { PyInt(i) : i \in 0 .. MaxCount }
          \cup { PyStr(Digits(i)) : i \in 0 .. MaxCount }
          \cup { PyStr(<<"0", "7">>), PyStr(<<" ", "1", "2">>),
                 PyStr(<<"\f", "4">>), PyStr(<<"4", "\f", " ">>),
                 PyStr(<<"x">>), PyStr(<<>>) }

MetricsBodies ==
    { ElsAuthor_payload_type :>
        << Metrics(PyStr(<<"A", ":", "7">>), c, PyInt(9), PyStr(<<"3">>),
                   PyStr(<<"2">>)) >> : c \in Counts }
    \cup
    { ElsAuthor_payload_type :>
        << Metrics(PyStr(<<"A", ":", "8">>), PyStr(<<"5">>), c, c, c) >>
        : c \in Counts }

MetricsResponses == {TransportError} \cup { Response(b) : b \in MetricsBodies }
FewMetricsResponses ==
    { TransportError,
      Response(ElsAuthor_payload_type :>
        << Metrics(PyStr(<<"A", ":", "7">>), PyStr(<<"1", "2">>), PyInt(9),
                   PyStr(<<"3">>), PyInt(2)) >>) }

----------------------------------------------------------------------------
(* Specifications.                                                         *)

\* construction alone, over all its arguments
NextCtor ==
    \/ \E u \in UriArgs, id \in IdArgs : ElsAuthor_init(u, id)
    \/ \E u \in UriArgs, id \in IdArgs : ElsAffil_init(u, id)

SpecCtor == Init /\ [][NextCtor]_vars

\* the document list: read_docs and write_docs over all entry lists
NextDocs ==
    \/ \E u \in FewUriArgs : ElsAuthor_init(u, PyStr(<<>>))
    \/ \E id \in FewIdArgs : ElsAffil_init(PyStr(<<>>), id)
    \/ \E c \in {NoClient, 1}, r \in DocsResponses(AllEntryLists) :
          ElsAuthor_read_docs(c, r)
    \/ \E c \in {NoClient, 1}, r \in DocsResponses(AllEntryLists) :
          ElsAffil_read_docs(c, r)
    \/ ElsProfile_write_docs

SpecDocs == Init /\ [][NextDocs]_vars

\* the payload: read and read_metrics over all metrics answers
NextMetrics ==
    \/ \E u \in FewUriArgs : ElsAuthor_init(u, PyStr(<<>>))
    \/ \E id \in FewIdArgs : ElsAffil_init(PyStr(<<>>), id)
    \/ \E c \in {NoClient, 1},
          r \in ReadResponses(ElsAuthor_payload_type, Payloads) :
          ElsAuthor_read(c, r)
    \/ \E c \in {NoClient, 1},
          r \in ReadResponses(ElsAffil_payload_type, Payloads) :
          ElsAffil_read(c, r)
    \/ \E c \in {NoClient, 1}, r \in MetricsResponses :
          ElsAuthor_read_metrics(c, r)

SpecMetrics == Init /\ [][NextMetrics]_vars

\* every operation, any order, over a few answers and all clients
Next ==
    \/ \E u \in FewUriArgs : ElsAuthor_init(u, PyStr(<<>>))
    \/ \E id \in FewIdArgs : ElsAffil_init(PyStr(<<>>), id)
    \/ \E c \in ClientArgs, r \in DocsResponses(FewEntryLists) :
          ElsAuthor_read_docs(c, r)
    \/ \E c \in ClientArgs, r \in DocsResponses(FewEntryLists) :
          ElsAffil_read_docs(c, r)
    \/ ElsProfile_write_docs
    \/ \E c \in ClientArgs,
          r \in ReadResponses(ElsAuthor_payload_type, {Payload1, Payload2}) :
          ElsAuthor_read(c, r)
    \/ \E c \in ClientArgs,
          r \in ReadResponses(ElsAffil_payload_type, {Payload1, Payload2}) :
          ElsAffil_read(c, r)
    \/ \E c \in ClientArgs, r \in FewMetricsResponses :
          ElsAuthor_read_metrics(c, r)

Spec == Init /\ [][Next]_vars

----------------------------------------------------------------------------
(* The claims.  In each, op, args, pre, ret and requests describe the call *)
(* that led to the state.                                                  *)

\* an argument given a value other than its default ''
Supplied(x) == x # PyStr(<<>>)

IsConstruction == op \in {"ElsAuthor", "ElsAffil"}

UriBaseOf(cls) ==
    IF cls = "ElsAuthor" THEN ElsAuthor_uri_base ELSE ElsAffil_uri_base

\* the call had a client to ask: its argument or one bound before
HadClient == args.els_client # NoClient \/ pre.client # NoClient

\* the entry list of a search answer, [] where it has none
EntriesOf(body) ==
    IF "search-results" \in DOMAIN body
       /\ "entry" \in DOMAIN body["search-results"]
    THEN body["search-results"]["entry"]
    ELSE <<>>

\* C1: constructing with both the URI and the ID supplied, or with neither,
\* raises ValueError and makes no entity; constructing with exactly one of
\* them supplied raises nothing, whatever the URI string and the int or
\* str ID.
C1_ConstructionRaisesIffNotExactlyOne ==
    IsConstruction =>
        /\ (Supplied(args.uri) = Supplied(args.id))
              => (ret.kind = "raise" /\ ret.val = "ValueError" /\ obj = "none")
        /\ (Supplied(args.uri) # Supplied(args.id))
              => (ret.kind = "return" /\ obj = op)

\* C2: a construction from the URI alone gives an entity whose uri is the
\* argument; a construction from the ID alone (an int or a str) gives an
\* entity whose uri is the class's base URL followed by str(id).
C2_ConstructedUri ==
    IsConstruction =>
        /\ (Supplied(args.uri) /\ ~Supplied(args.id))
              => (obj = op /\ uri = args.uri.s)
        /\ (~Supplied(args.uri) /\ Supplied(args.id))
              => (obj = op /\ uri = UriBaseOf(op) \o str(args.id))

\* C3: a read_docs whose request is answered returns True and leaves in
\* doc_list the answer's search-results.entry list, in its order, and the
\* empty list where the answer has no search-results or no entry.
C3_ReadDocsStoresEntries ==
    (op = "read_docs" /\ HadClient /\ ~args.resp.err) =>
        /\ ret = Return("True")
        /\ doc_list = Some(EntriesOf(args.resp.body))

C3_Witness ==
    /\ op = "read_docs"
    /\ ~args.resp.err
    /\ ret = Return("True")
    /\ Len(doc_list.v) = 2
    /\ doc_list.v[1] # doc_list.v[2]

\* C4: a read_docs whose request fails with a transport error returns
\* False, raises nothing, and leaves doc_list as it was before the call.
C4_TransportErrorKeepsDocList ==
    (op = "read_docs" /\ HadClient /\ args.resp.err) =>
        /\ ret = Return("False")
        /\ doc_list = pre.doc_list

C4_Witness ==
    /\ op = "read_docs"
    /\ args.resp.err
    /\ ret = Return("False")
    /\ ~pre.doc_list.none
    /\ Len(pre.doc_list.v) >= 1

\* C5: write_docs returns True and writes the file exactly when doc_list is
\* a non-empty list, and returns False and writes nothing when it is None or
\* empty; the file's text parsed as JSON is the list, element for element
\* in order; doc_list is left as it was.
C5_WriteDocsRoundTrip ==
    op = "write_docs" =>
        /\ doc_list = pre.doc_list
        /\ IF ~doc_list.none /\ Len(doc_list.v) >= 1
           THEN /\ ret = Return("True")
                /\ dump_file_name(uri) \in DOMAIN fs
                /\ json_loads(fs[dump_file_name(uri)])
                     = [ok |-> TRUE, v |-> doc_list.v]
           ELSE /\ ret = Return("False")
                /\ fs = pre.fs

C5_Witness ==
    /\ op = "write_docs"
    /\ ret = Return("True")
    /\ Len(doc_list.v) = 2
    /\ doc_list.v[1] # doc_list.v[2]
    /\ json_loads(fs[dump_file_name(uri)]).v = doc_list.v
    /\ dump_file_name(uri) \notin DOMAIN pre.fs

\* C6: after a read_metrics that returned True, coredata's document-count
\* and citation-count and data's h-index are the answer's fields converted
\* by int, coredata's dc:identifier is the answer's, and coredata's
\* cited-by-count is int of the answer's citation-count.
C6_MetricsFields ==
    (op = "read_metrics" /\ ret = Return("True")) =>
        LET src == args.resp.body[ElsAuthor_payload_type][1]
            core == data.v["coredata"]
        IN  /\ core["document-count"]
                 = PyInt(py_int(src["coredata"]["document-count"]).n)
            /\ core["citation-count"]
                 = PyInt(py_int(src["coredata"]["citation-count"]).n)
            /\ data.v["h-index"] = PyInt(py_int(src["h-index"]).n)
            /\ core["dc:identifier"] = src["coredata"]["dc:identifier"]
            /\ core["cited-by-count"]
                 = PyInt(py_int(src["coredata"]["citation-count"]).n)

C6_Witness ==
    /\ op = "read_metrics"
    /\ ret = Return("True")
    /\ LET src == args.resp.body[ElsAuthor_payload_type][1] IN
       /\ src["coredata"]["citation-count"] = PyStr(<<"0", "7">>)
       /\ src["coredata"]["cited-by-count"] = PyInt(9)
       /\ data.v["coredata"]["citation-count"] = PyInt(7)
       /\ data.v["coredata"]["cited-by-count"] = PyInt(7)
       /\ data.v["coredata"]["document-count"] = PyInt(3)

\* C7: a transport error of the client's never leaves read_docs or
\* read_metrics (the call returns False); a read_docs with no client
\* argument on an entity with no bound client raises the binding error
\* (ValueError) before any request and without changing doc_list.
C7_ErrorPropagation ==
    /\ (op \in {"read_docs", "read_metrics"} /\ requests # <<>>
        /\ args.resp.err) => ret = Return("False")
    /\ (op = "read_docs" /\ args.els_client = NoClient
        /\ pre.client = NoClient)
          => /\ ret.kind = "raise"
             /\ ret.val = "ValueError"
             /\ requests = <<>>
             /\ doc_list = pre.doc_list

C7_Witness ==
    /\ op = "read_docs"
    /\ ret.kind = "raise"
    /\ requests = <<>>
    /\ ~data.none
    /\ client = NoClient

\* C8: every read_docs or read_metrics on an entity that has a client, given
\* with the call or bound by an earlier one, issues exactly one request, to
\* that client, and returns a boolean.
C8_OneRequestThenBoolean ==
    (op \in {"read_docs", "read_metrics"} /\ HadClient) =>
        /\ Len(requests) = 1
        /\ requests[1].client = IF args.els_client # NoClient
                                THEN args.els_client ELSE pre.client
        /\ ret.kind = "return"
        /\ ret.val \in {"True", "False"}

\* C9: a read_metrics that returns True keeps every key of data and of
\* data.coredata other than the five metric fields; one that finds data
\* None or empty, or without coredata, creates what is missing and returns
\* True; one that returns False leaves data as it was.
C9_MetricsInPlace ==
    op = "read_metrics" =>
        /\ ret = Return("False") => data = pre.data
        /\ (ret = Return("True") /\ ~pre.data.none) =>
              /\ \A k \in DOMAIN pre.data.v \ {"coredata", "h-index"} :
                    k \in DOMAIN data.v /\ data.v[k] = pre.data.v[k]
              /\ "coredata" \in DOMAIN pre.data.v =>
                    \A k \in DOMAIN pre.data.v["coredata"]
                             \ {"dc:identifier", "citation-count",
                                "cited-by-count", "document-count"} :
                       /\ k \in DOMAIN data.v["coredata"]
                       /\ data.v["coredata"][k] = pre.data.v["coredata"][k]
        /\ (args.els_client # NoClient /\ ~args.resp.err
            /\ (pre.data.none \/ "coredata" \notin DOMAIN pre.data.v))
              => /\ ret = Return("True")
                 /\ "coredata" \in DOMAIN data.v

\* C10: doc_list is None until a read_docs returns True, and after any
\* calls it is the entry list of the latest read_docs that returned True:
\* each such call replaces it, also by an empty list, and no other call
\* (a failed read_docs, write_docs, read, read_metrics) changes it.
C10_DocListIsLastFetch ==
    /\ doc_list = PyNone
    /\ [][ IF op' = "read_docs" /\ ret' = Return("True")
           THEN doc_list' = Some(EntriesOf(args'.resp.body))
           ELSE doc_list' = doc_list ]_vars

C10_Witness ==
    /\ op = "read_docs"
    /\ ret = Return("True")
    /\ doc_list = Some(<<>>)
    /\ ~pre.doc_list.none
    /\ Len(pre.doc_list.v) >= 1

=============================================================================
